---- MODULE Spec2Model ----
(***************************************************************************)
(* Model of backend/app/services/scoring.py: the metric normalizer         *)
(* (normalize), the configuration tables (normalization_params, weights,   *)
(* TOTAL_WEIGHT) and the composite scorer (calculate_score).               *)
(*                                                                         *)
(* Python floats are modelled as IEEE 754 binary64 values with            *)
(* round-to-nearest-even arithmetic; a float division by zero raises       *)
(* ZeroDivisionError.  The outcome of a call is a record [exc, val]:       *)
(* exc = "none" and the returned value, or the name of the exception that  *)
(* propagated.                                                             *)
(***************************************************************************)
EXTENDS Integers, Sequences, FiniteSets, TLC

VARIABLES
    normalization_params,  \* module global: metric -> [min, max, lower_is_better]
    weights,               \* module global: items of the weights dict, in insertion order
    TOTAL_WEIGHT,          \* module global: sum(weights.values()), computed at import
    pc,                    \* per call: position in calculate_score
    area,                  \* per call: the argument
    it,                    \* per call: index of the current item of weights.items()
    metric_score,          \* per call: local metric_score
    total,                 \* per call: local total
    ret,                   \* per call: outcome (returned value or raised exception)
    probe,                 \* arguments of direct normalize calls
    out                    \* outcomes of the direct normalize calls made so far

vars == <<normalization_params, weights, TOTAL_WEIGHT, pc, area, it,
          metric_score, total, ret, probe, out>>

configVars == <<normalization_params, weights, TOTAL_WEIGHT>>
callVars == <<pc, area, it, metric_score, total, ret>>
probeVars == <<probe, out>>

----------------------------------------------------------------------------
(* Bounds of the model *)

\* number of calculate_score calls that may be in flight together
NumCalls == 2
\* direct normalize calls: min and max range over -MaxRange .. MaxRange
MaxRange == 3
\* direct normalize calls: values reach MaxExcess beyond that range
MaxExcess == 2
\* direct normalize calls: the far-out-of-range offset (min - FarOffset, max + FarOffset)
FarOffset == 1000

Calls == 1 .. NumCalls

----------------------------------------------------------------------------
(* natural numbers of any size: little-endian sequences of limbs in base   *)
(* 2^15, without leading zero limbs (TLC's integers have 32 bits)          *)

\* the widest limb whose products stay below 2^30
LimbBits == 30 \div 2
Base == 2^LimbBits

Limb(a, i) == IF i <= Len(a) THEN a[i] ELSE 0

RECURSIVE BNorm(_)
BNorm(a) ==
    IF a = <<>> THEN a
    ELSE IF a[Len(a)] = 0 THEN BNorm(SubSeq(a, 1, Len(a) - 1)) ELSE a

RECURSIVE BAddC(_, _, _, _)
BAddC(a, b, i, c) ==
    IF i > Len(a) /\ i > Len(b)
    THEN IF c = 0 THEN <<>> ELSE <<c>>
    ELSE LET s == Limb(a, i) + Limb(b, i) + c
         IN  <<s % Base>> \o BAddC(a, b, i + 1, s \div Base)

BAdd(a, b) == BAddC(a, b, 1, 0)

\* a - b, for a >= b
RECURSIVE BSubC(_, _, _, _)
BSubC(a, b, i, c) ==
    IF i > Len(a) THEN <<>>
    ELSE LET s == a[i] + Base - Limb(b, i) - c
         IN  <<s % Base>> \o BSubC(a, b, i + 1, 1 - (s \div Base))

BSub(a, b) == BNorm(BSubC(a, b, 1, 0))

\* -1, 0, 1 as a < b, a = b, a > b
RECURSIVE BCmpFrom(_, _, _)
BCmpFrom(a, b, i) ==
    IF i = 0 THEN 0
    ELSE IF a[i] < b[i] THEN -1
    ELSE IF a[i] > b[i] THEN 1
    ELSE BCmpFrom(a, b, i - 1)

BCmp(a, b) ==
    IF Len(a) < Len(b) THEN -1
    ELSE IF Len(a) > Len(b) THEN 1
    ELSE BCmpFrom(a, b, Len(a))

\* a * k, for 0 <= k < Base
RECURSIVE BMulSmallC(_, _, _, _)
BMulSmallC(a, k, i, c) ==
    IF i > Len(a)
    THEN IF c = 0 THEN <<>> ELSE <<c>>
    ELSE LET s == a[i] * k + c
         IN  <<s % Base>> \o BMulSmallC(a, k, i + 1, s \div Base)

BMulSmall(a, k) == IF k = 0 THEN <<>> ELSE BMulSmallC(a, k, 1, 0)

\* a * Base^n
BShiftLimbs(a, n) == IF a = <<>> THEN a ELSE [i \in 1 .. n |-> 0] \o a

RECURSIVE BMulFrom(_, _, _)
BMulFrom(a, b, j) ==
    IF j > Len(b) THEN <<>>
    ELSE BAdd(BShiftLimbs(BMulSmall(a, b[j]), j - 1), BMulFrom(a, b, j + 1))

BMul(a, b) == BMulFrom(a, b, 1)

\* a \div k, for 0 < k <= Base
RECURSIVE BDivSmallFrom(_, _, _, _, _)
BDivSmallFrom(a, k, i, rem, acc) ==
    IF i = 0 THEN BNorm(acc)
    ELSE LET cur == rem * Base + a[i]
         IN  BDivSmallFrom(a, k, i - 1, cur % k, <<cur \div k>> \o acc)

BDivSmall(a, k) == BDivSmallFrom(a, k, Len(a), 0, <<>>)

\* a * 2^k and a \div 2^k
BShl(a, k) == BShiftLimbs(BMulSmall(a, 2^(k % LimbBits)), k \div LimbBits)

BShr(a, k) ==
    IF k \div LimbBits >= Len(a) THEN <<>>
    ELSE BDivSmall(SubSeq(a, (k \div LimbBits) + 1, Len(a)), 2^(k % LimbBits))

RECURSIVE BitLenSmall(_)
BitLenSmall(x) == IF x = 0 THEN 0 ELSE 1 + BitLenSmall(x \div 2)

BBitLen(a) ==
    IF a = <<>> THEN 0 ELSE LimbBits * (Len(a) - 1) + BitLenSmall(a[Len(a)])

BOdd(a) == a # <<>> /\ a[1] % 2 = 1

RECURSIVE BFromNat(_)
BFromNat(n) == IF n = 0 THEN <<>> ELSE <<n % Base>> \o BFromNat(n \div Base)

(* floor(n * Base^4 / d) and whether the division left a remainder, for n   *)
(* and d of four limbs with top limbs >= Base / 2: schoolbook long division *)
(* with the quotient limb estimated from the top limbs and corrected        *)
RECURSIVE BFitLimb(_, _, _, _)
BFitLimb(r, d, q, prod) ==
    IF BCmp(prod, r) > 0 THEN BFitLimb(r, d, q - 1, BSub(prod, d))
    ELSE [q |-> q, r |-> BSub(r, prod)]

BQuotientLimb(r, d) ==
    LET top == Limb(r, Len(d) + 1) * Base + Limb(r, Len(d))
        est == top \div d[Len(d)]
        q == IF est > Base - 1 THEN Base - 1 ELSE est
    IN  BFitLimb(r, d, q, BMulSmall(d, q))

RECURSIVE BLongDiv(_, _, _, _)
BLongDivStep(step, d, todo, qs) == BLongDiv(step.r, d, todo - 1, <<step.q>> \o qs)

BLongDiv(r, d, todo, qs) ==
    IF todo = 0 THEN [q |-> BNorm(qs), exact |-> (r = <<>>)]
    ELSE BLongDivStep(BQuotientLimb(BShiftLimbs(r, 1), d), d, todo, qs)

BDivide(n, d) ==
    IF BCmp(n, d) >= 0 THEN BLongDiv(BSub(n, d), d, 4, <<1>>)
    ELSE BLongDiv(n, d, 4, <<0>>)

----------------------------------------------------------------------------
(* Python floats: IEEE 754 binary64 with round-to-nearest-even.  A float is *)
(* [sg, m, e] and stands for sg * m * 2^e, with sg in {-1, 0, 1} and m a    *)
(* natural of exactly Precision bits (m = <<>> and e = 0 for zero).         *)
(* Infinities, NaN, subnormals and the sign of zero are not modelled.       *)

Precision == 53

FZero == [sg |-> 0, m |-> <<>>, e |-> 0]

\* sg * r * 2^e for r of Precision or Precision + 1 bits, the last bit 0 then
FRenormalize(sg, r, e) ==
    IF BBitLen(r) > Precision
    THEN [sg |-> sg, m |-> BShr(r, 1), e |-> e + 1]
    ELSE [sg |-> sg, m |-> r, e |-> e]

\* -1, 0, 1 as the bits of s below bit sh are under, at, over half of 2^sh,
\* for q = s \div 2^sh
BHalfCmp(s, q, sh) == BCmp(BSub(s, BShl(q, sh)), BShl(<<1>>, sh - 1))

\* q rounded to nearest, ties to even
BRoundUp(q, half) ==
    IF half > 0 \/ (half = 0 /\ BOdd(q)) THEN BAdd(q, <<1>>) ELSE q

\* s has more than Precision bits: the lowest sh go, q = s \div 2^sh stays
FRoundCut(sg, s, q, sh, e) ==
    FRenormalize(sg, BRoundUp(q, BHalfCmp(s, q, sh)), e + sh)

FRoundLen(sg, s, e, len) ==
    IF len = 0 \/ sg = 0 THEN FZero
    ELSE IF len <= Precision
    THEN [sg |-> sg, m |-> BShl(s, Precision - len), e |-> e - (Precision - len)]
    ELSE FRoundCut(sg, s, BShr(s, len - Precision), len - Precision, e)

\* the float nearest to sg * s * 2^e, ties to even
FRound(sg, s, e) == FRoundLen(sg, s, e, BBitLen(s))

FNeg(x) == [x EXCEPT !.sg = -x.sg]

FAbs(x) == [x EXCEPT !.sg = x.sg * x.sg]

\* x + y for big = x.m * 2^(x.e - y.e) and c = BCmp(big, y.m)
FAddAligned(x, y, big, c) ==
    FRound(IF x.sg = y.sg \/ c > 0 THEN x.sg ELSE y.sg,
           IF x.sg = y.sg THEN BAdd(big, y.m)
           ELSE IF c > 0 THEN BSub(big, y.m)
           ELSE BSub(y.m, big),
           y.e)

FAddShifted(x, y, big) == FAddAligned(x, y, big, BCmp(big, y.m))

\* x + y where x.e >= y.e and neither is zero
FAddOrdered(x, y) ==
    IF x.e - y.e > Precision + 3 THEN x
    ELSE FAddShifted(x, y, BShl(x.m, x.e - y.e))

FAdd(x, y) ==
    IF x.sg = 0 THEN y
    ELSE IF y.sg = 0 THEN x
    ELSE FAddOrdered(IF x.e >= y.e THEN x ELSE y, IF x.e >= y.e THEN y ELSE x)

FSub(x, y) == FAdd(x, FNeg(y))

FMul(x, y) ==
    IF x.sg = 0 \/ y.sg = 0 THEN FZero
    ELSE FRound(x.sg * y.sg, BMul(x.m, y.m), x.e + y.e)

\* the quotient d of the padded significands, a sticky bit appended
FQuotient(sg, d, e) ==
    FRound(sg, BAdd(BMulSmall(d.q, 2), IF d.exact THEN <<>> ELSE <<1>>), e)

\* x / y, for y # 0
FDiv(x, y) ==
    IF x.sg = 0 THEN FZero
    ELSE FQuotient(x.sg * y.sg,
                   BDivide(BShl(x.m, 4 * LimbBits - Precision),
                           BShl(y.m, 4 * LimbBits - Precision)),
                   x.e - y.e - 4 * LimbBits - 1)

FCmpMagnitude(x, y) == IF x.e # y.e THEN (IF x.e < y.e THEN -1 ELSE 1) ELSE BCmp(x.m, y.m)

FLess(x, y) ==
    IF x.sg # y.sg THEN x.sg < y.sg
    ELSE IF x.sg = 0 THEN FALSE
    ELSE x.sg * FCmpMagnitude(x, y) < 0

FLeq(x, y) == ~FLess(y, x)

\* the float of an integer and of a decimal literal n / d (d a power of ten)
FromInt(n) ==
    FRound(IF n < 0 THEN -1 ELSE 1, BFromNat(IF n < 0 THEN -n ELSE n), 0)

Dec(n, d) == FDiv(FromInt(n), FromInt(d))

Zero == FromInt(0)
One == FromInt(1)
Ten == FromInt(10)

\* Python's builtin min(a, b) and max(a, b)
PyMin(a, b) == IF FLess(b, a) THEN b ELSE a
PyMax(a, b) == IF FLess(a, b) THEN b ELSE a

\* outcomes of a call
Val(x) == [exc |-> "none", val |-> x]
Raise(exc) == [exc |-> exc, val |-> Zero]

----------------------------------------------------------------------------
(* normalize *)

\* faulty variant: the lower_is_better flag is ignored
RatioIgnoreFlag(value, min_val, max_val, lower_is_better) ==
    FDiv(FSub(value, min_val), FSub(max_val, min_val))

\* lines 31-34; max_val # min_val
Ratio(value, min_val, max_val, lower_is_better) ==
    IF lower_is_better
    THEN FDiv(FSub(max_val, value), FSub(max_val, min_val))
    ELSE FDiv(FSub(value, min_val), FSub(max_val, min_val))

\* faulty variant: no clamp at all
ClampNone(normalized) == normalized

\* faulty variant: the upper clamp is lost
ClampLowOnly(normalized) == PyMax(Zero, normalized)

\* line 37
Clamp(normalized) == PyMax(Zero, PyMin(normalized, One))

\* faulty variant: a zero range is answered with 0 instead of an exception
normalizeGuarded(value, min_val, max_val, lower_is_better) ==
    IF FSub(max_val, min_val).sg = 0
    THEN Val(Zero)
    ELSE Val(FMul(Clamp(Ratio(value, min_val, max_val, lower_is_better)), Ten))

normalize(value, min_val, max_val, lower_is_better) ==
    IF FSub(max_val, min_val).sg = 0
    THEN Raise("ZeroDivisionError")
    ELSE Val(FMul(Clamp(Ratio(value, min_val, max_val, lower_is_better)), Ten))

----------------------------------------------------------------------------
(* configuration tables *)

P(mn, mx, lib) == [min |-> FromInt(mn), max |-> FromInt(mx), lower_is_better |-> lib]
W(m, n, d) == [metric |-> m, weight |-> Dec(n, d)]

\* the 15 numeric fields of Area, in declaration order
Metrics ==
    << "cost_of_living", "median_rent", "pct_new_renter_structures",
       "pct_income_spent_on_rent", "renters_insurance", "vacancy_rate",
       "pct_grapi_below_threshold", "electricity_bill", "job_growth",
       "unemployment", "commute_time", "walk_score", "transit_score",
       "bike_score", "eviction_laws" >>

MetricSet == {Metrics[i] : i \in DOMAIN Metrics}

\* the direction each Area field's comment documents: TRUE for "(lower is
\* better)", FALSE for "(higher is better)"; eviction_laws documents none
DocumentedLowerIsBetter ==
    ("cost_of_living" :> TRUE) @@ ("median_rent" :> TRUE) @@
    ("pct_new_renter_structures" :> FALSE) @@
    ("pct_income_spent_on_rent" :> TRUE) @@ ("renters_insurance" :> TRUE) @@
    ("vacancy_rate" :> TRUE) @@ ("pct_grapi_below_threshold" :> TRUE) @@
    ("electricity_bill" :> TRUE) @@ ("job_growth" :> FALSE) @@
    ("unemployment" :> TRUE) @@ ("commute_time" :> TRUE) @@
    ("walk_score" :> FALSE) @@ ("transit_score" :> FALSE) @@
    ("bike_score" :> FALSE)

DefaultParams ==
    ("cost_of_living" :> P(70, 160, TRUE)) @@
    ("median_rent" :> P(1000, 4000, TRUE)) @@
    ("pct_new_renter_structures" :> P(0, 100000, FALSE)) @@
    ("pct_income_spent_on_rent" :> P(0, 50, TRUE)) @@
    ("renters_insurance" :> P(0, 50, TRUE)) @@
    ("vacancy_rate" :> P(0, 11, TRUE)) @@
    ("pct_grapi_below_threshold" :> P(0, 100, FALSE)) @@
    ("electricity_bill" :> P(0, 300, TRUE)) @@
    ("job_growth" :> P(-5, 10, FALSE)) @@
    ("unemployment" :> P(2, 12, TRUE)) @@
    ("commute_time" :> P(10, 120, TRUE)) @@
    ("walk_score" :> P(0, 100, FALSE)) @@
    ("transit_score" :> P(0, 100, FALSE)) @@
    ("bike_score" :> P(0, 100, FALSE)) @@
    ("eviction_laws" :> P(0, 1, FALSE))

DefaultWeights ==
    << W("cost_of_living", 1, 10), W("median_rent", 1, 10),
       W("pct_new_renter_structures", 1, 10),
       W("pct_income_spent_on_rent", 1, 10), W("renters_insurance", 1, 20),
       W("vacancy_rate", 1, 20), W("pct_grapi_below_threshold", 1, 10),
       W("electricity_bill", 1, 20), W("job_growth", 1, 10),
       W("unemployment", 1, 10), W("commute_time", 1, 20),
       W("walk_score", 1, 20), W("transit_score", 1, 20),
       W("bike_score", 1, 20), W("eviction_laws", 1, 20) >>

\* faulty variant: the total is taken to be 1, as the comment on the table says
SumValuesOne(ws) == One

RECURSIVE SumFrom(_, _, _)
SumFrom(ws, i, acc) ==
    IF i > Len(ws) THEN acc ELSE SumFrom(ws, i + 1, FAdd(acc, ws[i].weight))

\* sum(weights.values()), as CPython up to 3.11 computes it: left to right
SumValues(ws) == SumFrom(ws, 1, Zero)

\* sum(weights.values()), as CPython from 3.12 on computes it: Neumaier's
\* compensated summation, the compensation comp added at the end
RECURSIVE SumCompensatedFrom(_, _, _, _)
SumCompensatedFrom(ws, i, acc, comp) ==
    IF i > Len(ws) THEN (IF comp.sg = 0 THEN acc ELSE FAdd(acc, comp))
    ELSE LET x == ws[i].weight
             t == FAdd(acc, x)
         IN  SumCompensatedFrom(ws, i + 1, t,
                IF FLeq(FAbs(x), FAbs(acc))
                THEN FAdd(comp, FAdd(FSub(acc, t), x))
                ELSE FAdd(comp, FAdd(FSub(x, t), acc)))

SumValuesCompensated(ws) == SumCompensatedFrom(ws, 1, Zero, Zero)

Keys(ws) == {ws[i].metric : i \in DOMAIN ws}

(* alternate tables: the default ones with every weight scaled by k, the    *)
(* range of one metric d made degenerate (max = min), and a metric that     *)
(* Area does not have added to the weights, to the parameters, or to both   *)
Scales == {Zero, Dec(1, 2), One, Dec(11, 10), FromInt(2), FromInt(3)}

ScaleWeights(ws, k) ==
    [i \in DOMAIN ws |-> [metric |-> ws[i].metric, weight |-> FMul(k, ws[i].weight)]]

Degenerates == {"none", "cost_of_living", "pct_grapi_below_threshold", "eviction_laws"}

ExtraMetric == "lead_service_lines"

ParamsTable(d, ep) ==
    LET base == IF d \in MetricSet
                THEN [DefaultParams EXCEPT ![d].max = DefaultParams[d].min]
                ELSE DefaultParams
    IN  IF ep THEN base @@ (ExtraMetric :> P(0, 100, TRUE)) ELSE base

WeightsTable(k, ew) ==
    ScaleWeights(IF ew THEN Append(DefaultWeights, W(ExtraMetric, 1, 20))
                 ELSE DefaultWeights, k)

----------------------------------------------------------------------------
(* Area records *)

Orlando ==
    [name |-> "Orlando",
     fields |->
        ("cost_of_living" :> Dec(1023, 10)) @@ ("median_rent" :> Dec(1581, 1)) @@
        ("pct_new_renter_structures" :> Dec(10000, 1)) @@
        ("pct_income_spent_on_rent" :> Dec(3333, 100)) @@
        ("renters_insurance" :> Dec(22, 1)) @@ ("vacancy_rate" :> Dec(109, 10)) @@
        ("pct_grapi_below_threshold" :> Dec(39, 1)) @@
        ("electricity_bill" :> Dec(276, 1)) @@ ("job_growth" :> Dec(12, 10)) @@
        ("unemployment" :> Dec(28, 10)) @@ ("commute_time" :> Dec(275, 10)) @@
        ("walk_score" :> Dec(41, 1)) @@ ("transit_score" :> Dec(55, 1)) @@
        ("bike_score" :> Dec(26, 1)) @@ ("eviction_laws" :> Dec(0, 1))]

USCities ==
    [name |-> "US Cities",
     fields |->
        ("cost_of_living" :> Dec(704, 10)) @@ ("median_rent" :> Dec(1462, 1)) @@
        ("pct_new_renter_structures" :> Dec(44000, 1)) @@
        ("pct_income_spent_on_rent" :> Dec(32, 1)) @@
        ("renters_insurance" :> Dec(23, 1)) @@ ("vacancy_rate" :> Dec(69, 10)) @@
        ("pct_grapi_below_threshold" :> Dec(525, 10)) @@
        ("electricity_bill" :> Dec(116, 1)) @@ ("job_growth" :> Dec(2, 1)) @@
        ("unemployment" :> Dec(4, 1)) @@ ("commute_time" :> Dec(26, 1)) @@
        ("walk_score" :> Dec(48, 1)) @@ ("transit_score" :> Dec(55, 1)) @@
        ("bike_score" :> Dec(25, 1)) @@ ("eviction_laws" :> Dec(1, 1))]

\* every field FarOffset below its configured minimum
Below ==
    [name |-> "Below",
     fields |-> [m \in MetricSet |-> FSub(DefaultParams[m].min, FromInt(FarOffset))]]

\* every field FarOffset above its configured maximum
Above ==
    [name |-> "Above",
     fields |-> [m \in MetricSet |-> FAdd(DefaultParams[m].max, FromInt(FarOffset))]]

\* every field at the desirable end of its range
Best ==
    [name |-> "Best",
     fields |-> [m \in MetricSet |->
                    IF DefaultParams[m].lower_is_better
                    THEN DefaultParams[m].min ELSE DefaultParams[m].max]]

\* an object that lacks two of the fields (calculate_score checks no type)
Partial ==
    [name |-> "Partial",
     fields |-> [m \in MetricSet \ {"median_rent", "walk_score"} |-> Orlando.fields[m]]]

Areas == {Orlando, USCities, Below, Above, Best, Partial}
ConcAreas == {Orlando, Partial}

NoArea == [name |-> "", fields |-> [m \in {} |-> Zero]]

----------------------------------------------------------------------------
(* calculate_score *)

\* faulty variant: getattr with a default, getattr(area, metric, 0.0)
GetAttrDefault(a, metric) ==
    IF metric \in DOMAIN a.fields THEN Val(a.fields[metric]) ELSE Val(Zero)

\* line 86: getattr(area, metric)
GetAttr(a, metric) ==
    IF metric \in DOMAIN a.fields THEN Val(a.fields[metric])
    ELSE Raise("AttributeError")

\* lines 86-88: the metric's normalized score, or the exception raised
MetricScore(a, metric, params) ==
    LET raw_value == GetAttr(a, metric)
    IN  IF raw_value.exc # "none" THEN raw_value
        ELSE IF metric \notin DOMAIN params THEN Raise("KeyError")
        ELSE normalize(raw_value.val, params[metric].min, params[metric].max,
                       params[metric].lower_is_better)

\* lines 85-89, run to the end from item i with the running total tot
RECURSIVE Loop(_, _, _, _, _)
Loop(a, ws, params, i, tot) ==
    IF i > Len(ws) THEN Val(tot)
    ELSE LET s == MetricScore(a, ws[i].metric, params)
         IN  IF s.exc # "none" THEN s
             ELSE Loop(a, ws, params, i + 1, FAdd(tot, FMul(ws[i].weight, s.val)))

\* lines 91-92 after the loop ended with outcome t
Finish(t, tw) ==
    IF t.exc # "none" THEN t
    ELSE IF tw.sg = 0 THEN Raise("ZeroDivisionError")
    ELSE Val(FDiv(t.val, tw))

\* calculate_score(area) run on its own under the tables ws, params and the
\* total weight tw: its outcome
calculate_score(a, ws, params, tw) == Finish(Loop(a, ws, params, 1, Zero), tw)

\* the caller invokes calculate_score(a); line 84
Call(p, a) ==
    /\ pc[p] = "idle"
    /\ pc' = [pc EXCEPT ![p] = "for"]
    /\ area' = [area EXCEPT ![p] = a]
    /\ it' = [it EXCEPT ![p] = 0]
    /\ total' = [total EXCEPT ![p] = Zero]
    /\ UNCHANGED <<metric_score, ret, configVars, probeVars>>

\* lines 85-88: the next item of weights.items() and its normalized score,
\* or the end of the loop
LoopStep(p) ==
    /\ pc[p] = "for"
    /\ IF it[p] < Len(weights)
       THEN LET s == MetricScore(area[p], weights[it[p] + 1].metric,
                                 normalization_params)
            IN  /\ it' = [it EXCEPT ![p] = it[p] + 1]
                /\ IF s.exc = "none"
                   THEN /\ metric_score' = [metric_score EXCEPT ![p] = s.val]
                        /\ pc' = [pc EXCEPT ![p] = "add"]
                        /\ UNCHANGED ret
                   ELSE /\ ret' = [ret EXCEPT ![p] = s]
                        /\ pc' = [pc EXCEPT ![p] = "raised"]
                        /\ UNCHANGED metric_score
       ELSE /\ pc' = [pc EXCEPT ![p] = "return"]
            /\ UNCHANGED <<it, metric_score, ret>>
    /\ UNCHANGED <<area, total, configVars, probeVars>>

\* faulty variant: total is one accumulator shared by every call
AddShared(p) ==
    /\ pc[p] = "add"
    /\ total' = [q \in Calls |->
                    FAdd(total[p], FMul(weights[it[p]].weight, metric_score[p]))]
    /\ pc' = [pc EXCEPT ![p] = "for"]
    /\ UNCHANGED <<area, it, metric_score, ret, configVars, probeVars>>

\* line 89
Add(p) ==
    /\ pc[p] = "add"
    /\ total' = [total EXCEPT ![p] =
                    FAdd(total[p], FMul(weights[it[p]].weight, metric_score[p]))]
    /\ pc' = [pc EXCEPT ![p] = "for"]
    /\ UNCHANGED <<area, it, metric_score, ret, configVars, probeVars>>

\* faulty variant: the weighted sum is returned without the division
ReturnNoDivide(p) ==
    /\ pc[p] = "return"
    /\ ret' = [ret EXCEPT ![p] = Val(total[p])]
    /\ pc' = [pc EXCEPT ![p] = "done"]
    /\ UNCHANGED <<area, it, metric_score, total, configVars, probeVars>>

\* lines 91-92
Return(p) ==
    /\ pc[p] = "return"
    /\ IF TOTAL_WEIGHT.sg = 0
       THEN /\ ret' = [ret EXCEPT ![p] = Raise("ZeroDivisionError")]
            /\ pc' = [pc EXCEPT ![p] = "raised"]
       ELSE /\ ret' = [ret EXCEPT ![p] = Val(FDiv(total[p], TOTAL_WEIGHT))]
            /\ pc' = [pc EXCEPT ![p] = "done"]
    /\ UNCHANGED <<area, it, metric_score, total, configVars, probeVars>>

----------------------------------------------------------------------------
(* direct calls of normalize *)

Grid == {Dec(k, 2) : k \in (-2 * (MaxRange + MaxExcess)) .. (2 * (MaxRange + MaxExcess))}
Ends == {Dec(k, 1) : k \in (-MaxRange) .. MaxRange}

ProbeValues(mn, mx) ==
    Grid \cup {FSub(mn, FromInt(FarOffset)), FAdd(mx, FromInt(FarOffset))}

NoProbe == [v |-> <<>>, min_val |-> Zero, max_val |-> Zero, lower_is_better |-> FALSE]

\* normalize(value, min_val, max_val, lower_is_better) on the next value of the probe
NormalizeCall ==
    /\ Len(out) < Len(probe.v)
    /\ out' = Append(out, normalize(probe.v[Len(out) + 1], probe.min_val,
                                    probe.max_val, probe.lower_is_better))
    /\ UNCHANGED <<probe, configVars, callVars>>

----------------------------------------------------------------------------
(* specifications *)

CallsIdle ==
    /\ pc = [p \in Calls |-> "idle"]
    /\ area = [p \in Calls |-> NoArea]
    /\ it = [p \in Calls |-> 0]
    /\ metric_score = [p \in Calls |-> Zero]
    /\ total = [p \in Calls |-> Zero]
    /\ ret = [p \in Calls |-> Raise("pending")]

\* lines 41-78 as written
DefaultConfig ==
    /\ normalization_params = DefaultParams
    /\ weights = DefaultWeights
    /\ TOTAL_WEIGHT \in {SumValues(weights), SumValuesCompensated(weights)}

\* one scoring call at a time, under the default tables and the alternate ones
Init ==
    /\ \E k \in Scales, d \in Degenerates, ew \in BOOLEAN, ep \in BOOLEAN :
          /\ normalization_params = ParamsTable(d, ep)
          /\ weights = WeightsTable(k, ew)
    /\ TOTAL_WEIGHT \in {SumValues(weights), SumValuesCompensated(weights)}
    /\ CallsIdle
    /\ probe = NoProbe
    /\ out = <<>>

Next ==
    \/ \E a \in Areas : Call(1, a)
    \/ LoopStep(1)
    \/ Add(1)
    \/ Return(1)

Spec == Init /\ [][Next]_vars

\* NumCalls scoring calls interleaved, under the default tables
InitConc ==
    /\ DefaultConfig
    /\ CallsIdle
    /\ probe = NoProbe
    /\ out = <<>>

NextConc ==
    \E p \in Calls :
        \/ \E a \in ConcAreas : Call(p, a)
        \/ LoopStep(p)
        \/ Add(p)
        \/ Return(p)

SpecConc == InitConc /\ [][NextConc]_vars

\* normalize called directly, twice with the same range and direction
InitNorm ==
    /\ DefaultConfig
    /\ CallsIdle
    /\ \E mn \in Ends, mx \in Ends, lib \in BOOLEAN :
          \E v1 \in ProbeValues(mn, mx), v2 \in ProbeValues(mn, mx) :
             /\ FLeq(v1, v2)
             /\ probe = [v |-> <<v1, v2>>, min_val |-> mn, max_val |-> mx,
                         lower_is_better |-> lib]
    /\ out = <<>>

NextNorm == NormalizeCall

SpecNorm == InitNorm /\ [][NextNorm]_vars

----------------------------------------------------------------------------
(* properties of normalize, under SpecNorm *)

ProbeValid == FLess(probe.min_val, probe.max_val)
ProbeDone == Len(out) = Len(probe.v)

\* C1: for max > min, either direction and any value, inside, below or above
\* [min, max], normalize returns a number r with 0 <= r <= 10.
NormalizeBounded ==
    ProbeValid =>
        \A i \in DOMAIN out :
            /\ out[i].exc = "none"
            /\ FLeq(Zero, out[i].val)
            /\ FLeq(out[i].val, Ten)

\* a valid range, one value below it and one above it, both normalized
NormalizeBoundedWitness ==
    /\ ProbeValid
    /\ ProbeDone
    /\ FLess(probe.v[1], probe.min_val)
    /\ FLess(probe.max_val, probe.v[2])

\* C2: for max > min, normalize saturates exactly at the ends of the range:
\* with lower_is_better every value <= min gives exactly 10 and every value
\* >= max gives exactly 0; without it every value <= min gives exactly 0 and
\* every value >= max gives exactly 10.
NormalizeSaturates ==
    ProbeValid =>
        \A i \in DOMAIN out :
            /\ FLeq(probe.v[i], probe.min_val) =>
                  out[i] = Val(IF probe.lower_is_better THEN Ten ELSE Zero)
            /\ FLeq(probe.max_val, probe.v[i]) =>
                  out[i] = Val(IF probe.lower_is_better THEN Zero ELSE Ten)

\* lower is better, the value FarOffset below min and the value max itself
NormalizeSaturatesWitness ==
    /\ ProbeValid
    /\ ProbeDone
    /\ probe.lower_is_better
    /\ probe.v[1] = FSub(probe.min_val, FromInt(FarOffset))
    /\ probe.v[2] = probe.max_val
    /\ out = <<Val(Ten), Val(Zero)>>

\* C3: for fixed min < max and v1 <= v2, normalize is non-increasing in the
\* value when lower_is_better and non-decreasing otherwise, also when v1 or
\* v2 lie outside [min, max].
NormalizeMonotone ==
    (ProbeValid /\ ProbeDone /\ FLeq(probe.v[1], probe.v[2])) =>
        IF probe.lower_is_better
        THEN FLeq(out[2].val, out[1].val)
        ELSE FLeq(out[1].val, out[2].val)

\* lower is better, v1 below the range and v2 inside it, the scores differ
NormalizeMonotoneWitness ==
    /\ ProbeValid
    /\ ProbeDone
    /\ probe.lower_is_better
    /\ FLess(probe.v[1], probe.min_val)
    /\ FLess(probe.min_val, probe.v[2])
    /\ FLess(probe.v[2], probe.max_val)
    /\ FLess(out[2].val, out[1].val)

----------------------------------------------------------------------------
(* properties of calculate_score, under Spec *)

ValidConfig ==
    /\ \A i \in DOMAIN weights : FLeq(Zero, weights[i].weight)
    /\ FLess(Zero, TOTAL_WEIGHT)
    /\ \A m \in Keys(weights) \cap DOMAIN normalization_params :
          FLess(normalization_params[m].min, normalization_params[m].max)

OutOfRange(a) ==
    \E m \in DOMAIN a.fields \cap DOMAIN normalization_params :
        \/ FLess(a.fields[m], normalization_params[m].min)
        \/ FLess(normalization_params[m].max, a.fields[m])

FPow2(k) == FRound(1, <<1>>, k)

\* rounding allowances for tables of up to 16 metrics: one score may exceed
\* 10 by 10 * 2^-47, two scores of the same area may differ by 10 * 2^-46
ScoreCeiling == FAdd(Ten, FMul(Ten, FPow2(-47)))
ScoreTolerance == FMul(Ten, FPow2(-46))

\* C4 as stated: with non-negative weights of positive sum and max > min
\* for every scored metric, every score calculate_score returns lies in
\* [0, 10], whether the fields lie within their ranges or outside them.
ScoreInZeroTen ==
    \A p \in Calls :
        (pc[p] = "done" /\ ValidConfig) =>
            /\ ret[p].exc = "none"
            /\ FLeq(Zero, ret[p].val)
            /\ FLeq(ret[p].val, Ten)

\* C4, amended: under those conditions the score is at least 0 and at most
\* 10 up to rounding (at most 10 * (1 + 2^-47)); under the default weights
\* table it is at most 10.
ScoreBounded ==
    \A p \in Calls :
        (pc[p] = "done" /\ ValidConfig) =>
            /\ ret[p].exc = "none"
            /\ FLeq(Zero, ret[p].val)
            /\ FLeq(ret[p].val, ScoreCeiling)
            /\ weights = DefaultWeights => FLeq(ret[p].val, Ten)

\* a score was returned for an area with a field outside its range
ScoreBoundedWitness ==
    \E p \in Calls :
        /\ pc[p] = "done"
        /\ ValidConfig
        /\ OutOfRange(area[p])
        /\ FLess(Zero, ret[p].val)

\* the scores of the area of call p under the weights table scaled by the
\* positive constant k, TOTAL_WEIGHT being the sum of the scaled table
ScaledScores(p, k) ==
    LET ws == ScaleWeights(weights, k)
        t == Loop(area[p], ws, normalization_params, 1, Zero)
    IN  {Finish(t, SumValues(ws)), Finish(t, SumValuesCompensated(ws))}

\* C5 as stated: scaling every weight of the table by the same positive
\* constant does not change the score.
ScoreScaleExact ==
    \A p \in Calls :
        pc[p] = "done" =>
            \A k \in Scales \ {Zero} : ScaledScores(p, k) = {ret[p]}

\* C5, amended: scaling every weight of the table by the same positive
\* constant changes the score by no more than rounding (10 * 2^-46).
ScoreScaleInvariant ==
    \A p \in Calls :
        pc[p] = "done" =>
            \A k \in Scales \ {Zero} :
                \A r \in ScaledScores(p, k) :
                    /\ r.exc = "none"
                    /\ FLeq(FAbs(FSub(r.val, ret[p].val)), ScoreTolerance)

\* a positive score was returned under a table that is not the default one
ScoreScaleInvariantWitness ==
    \E p \in Calls :
        /\ pc[p] = "done"
        /\ weights # DefaultWeights
        /\ area[p] = Orlando
        /\ FLess(Zero, ret[p].val)

DegenerateScored ==
    \E m \in Keys(weights) \cap DOMAIN normalization_params :
        normalization_params[m].min = normalization_params[m].max

\* C6: when a scored metric has min = max, calculate_score fails: it never
\* reaches its return statement and never yields a number.
DegenerateRangeFails ==
    DegenerateScored =>
        \A p \in Calls :
            /\ pc[p] \notin {"return", "done"}
            /\ ret[p].exc # "none"

\* a call stopped with ZeroDivisionError at the degenerate metric
DegenerateRangeFailsWitness ==
    \E p \in Calls :
        /\ DegenerateScored
        /\ pc[p] = "raised"
        /\ ret[p].exc = "ZeroDivisionError"
        /\ it[p] > 1
        /\ LET m == weights[it[p]].metric
           IN  normalization_params[m].min = normalization_params[m].max

MissingItems(a, ws) == {i \in DOMAIN ws : ws[i].metric \notin DOMAIN a.fields}
FirstOf(S) == CHOOSE i \in S : \A j \in S : i <= j

\* C7 as stated: a call returns a score only if every metric of the weights
\* table and of the parameters table has a value on the area.
MissingAnywhereFails ==
    \A p \in Calls :
        pc[p] = "done" =>
            \A m \in Keys(weights) \cup DOMAIN normalization_params :
                m \in DOMAIN area[p].fields

\* C7, amended: when metrics of the weights table have no value on the
\* area, the call goes no further than the first such item, raises there
\* (AttributeError) unless an earlier item already raised, and never returns
\* a score.
MissingWeightedFails ==
    \A p \in Calls :
        (pc[p] # "idle" /\ MissingItems(area[p], weights) # {}) =>
            LET f == FirstOf(MissingItems(area[p], weights))
            IN  /\ it[p] <= f
                /\ pc[p] \notin {"return", "done"}
                /\ ret[p].exc # "none"
                /\ it[p] = f => (pc[p] = "raised" /\ ret[p].exc = "AttributeError")

\* the call on the area lacking median_rent and walk_score raised at median_rent
MissingWeightedFailsWitness ==
    \E p \in Calls :
        /\ area[p] = Partial
        /\ pc[p] = "raised"
        /\ weights[it[p]].metric = "median_rent"
        /\ ret[p].exc = "AttributeError"
        /\ FLess(Zero, total[p])

\* C8: the default weights sum to 1, TOTAL_WEIGHT is 1 and the division by
\* it leaves the weighted sum unchanged.
DefaultWeightsSumToOne ==
    weights = DefaultWeights =>
        /\ TOTAL_WEIGHT = One
        /\ \A p \in Calls : pc[p] = "done" => ret[p].val = total[p]

\* C9: every documented direction agrees with the lower_is_better flag of
\* the parameters, so a more desirable raw value (the end of the range the
\* comment calls better) never scores lower than the other end.
DirectionsAgree ==
    \A m \in DOMAIN DocumentedLowerIsBetter :
        LET q == normalization_params[m]
            better == IF DocumentedLowerIsBetter[m] THEN q.min ELSE q.max
            worse == IF DocumentedLowerIsBetter[m] THEN q.max ELSE q.min
        IN  /\ q.lower_is_better = DocumentedLowerIsBetter[m]
            /\ FLess(q.min, q.max) =>
                  FLeq(normalize(worse, q.min, q.max, q.lower_is_better).val,
                       normalize(better, q.min, q.max, q.lower_is_better).val)

----------------------------------------------------------------------------
(* interleaved calls, under SpecConc *)

\* calculate_score(a) run alone under the tables as imported: the running
\* total after each number of items, and the outcome of the loop
AloneRuns ==
    [a \in ConcAreas |->
        [prefix |-> [n \in 0 .. Len(DefaultWeights) |->
                        Loop(a, SubSeq(DefaultWeights, 1, n), DefaultParams, 1, Zero)],
         loop |-> Loop(a, DefaultWeights, DefaultParams, 1, Zero)]]

CallAgreesWithAlone(p) ==
    /\ pc[p] \in {"done", "raised"} =>
          ret[p] = Finish(AloneRuns[area[p]].loop, TOTAL_WEIGHT)
    /\ pc[p] \in {"for", "return"} => Val(total[p]) = AloneRuns[area[p]].prefix[it[p]]
    /\ pc[p] = "add" => Val(total[p]) = AloneRuns[area[p]].prefix[it[p] - 1]

StepIsLocal ==
    /\ configVars' = configVars
    /\ \A p \in Calls :
          /\ pc[p] # "idle" => area'[p] = area[p]
          /\ pc'[p] = pc[p] =>
                /\ total'[p] = total[p]
                /\ metric_score'[p] = metric_score[p]
                /\ it'[p] = it[p]
                /\ ret'[p] = ret[p]

\* C10: calls may interleave freely: every step changes only the locals of
\* the call that takes it, leaves normalization_params, weights,
\* TOTAL_WEIGHT and every call's area unchanged, and under every
\* interleaving each call's running total and outcome are those of the same
\* call run alone on the same area.
InterleavedCallsIndependent ==
    /\ [](\A p \in Calls : CallAgreesWithAlone(p))
    /\ [][StepIsLocal]_vars

\* the call on the incomplete area has raised while the call on the other
\* area is in the middle of its loop
InterleavedCallsWitness ==
    \E p \in Calls, q \in Calls :
        /\ area[p] = Orlando /\ pc[p] = "add" /\ it[p] > 2
        /\ area[q] = Partial /\ pc[q] = "raised"

====
